---- MODULE Spec2Model ----
(***************************************************************************)
(* truffle-contract-size: src/src/index.js as a state machine.            *)
(*                                                                         *)
(* One run of module.exports(config, done).  JavaScript runs each piece   *)
(* of code between two awaits to completion, so an action is one such     *)
(* piece: Start (up to the first await), ReadDirDone (readdir's result up *)
(* to the launch of the per-contract tasks), LstatDone(i) (task i from    *)
(* lstat's result to its end) and Finish (everything after                *)
(* await Promise.all).  The file system and the artifact contents are the *)
(* environment: their answers are drawn when the call completes.          *)
(*                                                                         *)
(* Strings the code inspects (file and contract names) are sequences of   *)
(* one-character strings.  A size in KiB is the exact rational            *)
(* (length - 2) / 2 / 1024, held as its numerator over KiBUnits.          *)
(***************************************************************************)
EXTENDS Integers, Sequences, FiniteSets, TLC

VARIABLES
  pc,          \* where module.exports stands
  argv,        \* yargs.argv: contracts, checkMaxSize, ignoreMocks, disambiguatePaths
  sortOptions, \* yargs.argv.sort, drawn where the code first uses it
  files,       \* getAllContractNames: the directory listing readdir returned
  contracts,   \* module.exports: the resolved contracts
  task,        \* state of each contractPromises[i]
  tableData,   \* module.exports: the collected rows
  table,       \* the cli-table drawn from tableData
  stdout,      \* what console.log wrote: the tables printed
  doneLog,     \* every call of the done callback, in order
  fsOps,       \* file-system calls issued so far
  pushed,      \* history: rows pushed by each task
  maxChecked   \* history: the checkMaxSize block ran

vars == <<pc, argv, sortOptions, files, contracts, task, tableData, table, stdout,
          doneLog, fsOps, pushed, maxChecked>>

(*************************** bounds of the model ***************************)
MaxFiles == 2

(**************************** program constants ****************************)
DEFAULT_MAX_CONTRACT_SIZE_IN_KIB == 24
\* (byteCode.length - 2) / 2 / 1024: one unit of the numerator is 1/2048 KiB
KiBUnits == 2048

(***************************** JavaScript values ***************************)
Undefined == [t |-> "undefined", n |-> 0]
True      == [t |-> "true", n |-> 0]
NaN       == [t |-> "NaN", n |-> 0]
StrAbc    == [t |-> "string", n |-> 0]      \* the non-empty string "abc"
Num(k)    == [t |-> "number", n |-> k]

\* ToBoolean
Truthy(v) == \/ v.t = "true"
             \/ v.t = "string"
             \/ (v.t = "number" /\ v.n # 0)

\* Number.isNaN: true of the number NaN only, no coercion of its argument
NumberIsNaN(v) == v.t = "NaN"

(********************************* strings *********************************)
DotJson  == <<".", "j", "s", "o", "n">>
MockJson == <<"M", "o", "c", "k", ".", "j", "s", "o", "n">>
DotSol   == <<".", "s", "o", "l">>
Slash    == <<"/">>

endsWith(s, suffix) ==
  /\ Len(s) >= Len(suffix)
  /\ SubSeq(s, Len(s) - Len(suffix) + 1, Len(s)) = suffix

\* s.slice(0, -k)
sliceOff(s, k) == SubSeq(s, 1, Len(s) - k)

\* UTF-16 code units of the characters in use
CharCode(c) ==
  CASE c = "." -> 46  [] c = "/" -> 47
    [] c = "A" -> 65  [] c = "M" -> 77  [] c = "T" -> 84
    [] c = "c" -> 99  [] c = "j" -> 106 [] c = "k" -> 107 [] c = "l" -> 108
    [] c = "n" -> 110 [] c = "o" -> 111 [] c = "r" -> 114 [] c = "s" -> 115
    [] c = "t" -> 116 [] c = "w" -> 119 [] c = "x" -> 120

\* a < b on JavaScript strings: by code units, a proper prefix first
RECURSIVE StrLess(_, _)
StrLess(a, b) ==
  IF b = <<>> THEN FALSE
  ELSE IF a = <<>> THEN TRUE
  ELSE IF Head(a) # Head(b) THEN CharCode(Head(a)) < CharCode(Head(b))
  ELSE StrLess(Tail(a), Tail(b))

\* index of the first occurrence of sep in s at or after position from, 0 if none
FirstAt(s, sep, from) ==
  LET hits == {i \in from..(Len(s) - Len(sep) + 1) : SubSeq(s, i, i + Len(sep) - 1) = sep}
  IN  IF hits = {} THEN 0 ELSE CHOOSE i \in hits : \A j \in hits : i <= j

\* s.split(sep)[1], with "undefined" when s does not contain sep
splitSecond(s, sep) ==
  LET i == FirstAt(s, sep, 1)
  IN  IF i = 0 THEN <<"u", "n", "d", "e", "f", "i", "n", "e", "d">>
      ELSE LET from == i + Len(sep)
               j    == FirstAt(s, sep, from)
           IN  IF j = 0 THEN SubSeq(s, from, Len(s)) ELSE SubSeq(s, from, j - 1)

(********************************* inputs **********************************)
\* config.working_directory and config.contracts_directory
WorkingDirectory   == <<"/", "w">>
ContractsDirectory == <<"/", "w", "/", "c">>
BuildDirectory     == <<"/", "w", "/", "b">>

NameA     == <<"A">>
NameTMock == <<"T", "M", "o", "c", "k">>
ContractNames == {NameA, NameTMock}
\* what the build directory may hold: artifacts and one file that is none
FileNames == {n \o DotJson : n \in ContractNames} \cup {<<"r", ".", "t", "x", "t">>}

\* deployedBytecode lengths: "0x" plus two hex digits a byte.
\* 24576 B is 24 KiB; 24577 B shows as 24.00 KiB; 24587 B shows as 24.01 KiB
ByteCodeLengths == {49154, 49156, 49176}

SeqsUpTo(S, n) == UNION {[1..k -> S] : k \in 0..n}
Injective(s) == \A i, j \in 1..Len(s) : i # j => s[i] # s[j]

\* yargs.argv.contracts: absent, or an array of names, each named once
ContractsInputs ==
  {[given |-> FALSE, names |-> <<>>]}
    \cup {[given |-> TRUE, names |-> s] :
            s \in {q \in SeqsUpTo(ContractNames, Cardinality(ContractNames)) :
                     Injective(q)}}

CheckMaxSizeInputs == {Undefined, True, NaN, StrAbc, Num(0), Num(1)}

SortTypes  == {"name", "size", "foo"}
SortOrders == {"asc", "desc", "bar"}
\* yargs.argv.sort: absent, or an array of at most two strings
NoSort == [given |-> FALSE, opts |-> <<>>]
SortInputs ==
  {NoSort, [given |-> TRUE, opts |-> <<>>]}
    \cup {[given |-> TRUE, opts |-> <<t>>] : t \in SortTypes}
    \cup {[given |-> TRUE, opts |-> <<t, o>>] : t \in SortTypes, o \in SortOrders}

ArgvInputs ==
  [contracts : ContractsInputs, checkMaxSize : CheckMaxSizeInputs,
   ignoreMocks : BOOLEAN, disambiguatePaths : BOOLEAN]

\* what readdir may return: the entries of the build directory, each once
Listings == {s \in SeqsUpTo(FileNames, MaxFiles) : Injective(s)}

\* what require(contract.file) may do
RequireOutcomes ==
  {[r |-> "throws", len |-> 0], [r |-> "noBytecode", len |-> 0]}
    \cup {[r |-> "artifact", len |-> l] : l \in ByteCodeLengths}

(****************************** done messages ******************************)
Msg(kind, who, max) == [kind |-> kind, who |-> who, max |-> max]
Success == Msg("success", <<>>, Undefined)

(************************* functions of the program ************************)
isValidCheckMaxSize(checkMaxSize) ==
  IF checkMaxSize = Undefined THEN TRUE
  ELSE checkMaxSize = True \/ ~NumberIsNaN(checkMaxSize)

\* the size in KiB, as the numerator over KiBUnits: -2 for "0x", two digits a byte
computeByteCodeSizeInKiB(byteCodeLength) == byteCodeLength - 2

\* Number.prototype.toFixed(2) of size / KiBUnits >= 0, in hundredths: the
\* nearest hundredth, the larger one on a tie
toFixed2(size) == (200 * size + KiBUnits) \div (2 * KiBUnits)

formatByteCodeSize(byteCodeSize) ==
  LET h == toFixed2(byteCodeSize)
  IN  [whole |-> h \div 100, frac |-> h % 100, unit |-> " KiB"]

\* Number.parseFloat of a formatted size, in hundredths: the leading decimal
\* number, the unit after it ignored
parseFloat(text) == text.whole * 100 + text.frac

\* parseFloat(row[1]) > maxSize: a string that is no number converts to NaN,
\* and every comparison with NaN is false
GreaterThanMax(hundredths, maxSize) ==
  /\ maxSize.t = "number"
  /\ hundredths > 100 * maxSize.n

\* a filter that forgets the mock test
keepEveryJsonFile(file, ignoreMocks) == endsWith(file, DotJson)

\* the filter callback of getAllContractNames
keepContractFile(file, ignoreMocks) ==
  IF ~endsWith(file, DotJson) THEN FALSE
  ELSE IF ignoreMocks /\ endsWith(file, MockJson) THEN FALSE
  ELSE TRUE

getAllContractNames(listing, ignoreMocks) ==
  LET contractsFiles == SelectSeq(listing, LAMBDA f : keepContractFile(f, ignoreMocks))
  IN  [i \in 1..Len(contractsFiles) |-> sliceOff(contractsFiles[i], 5)]

\* contractNames === undefined || contractNames.length === 0
mustListDirectory(contractNames) ==
  ~contractNames.given \/ Len(contractNames.names) = 0

\* the map at the end of getContracts
contractRefs(names) ==
  [i \in 1..Len(names) |->
     [file         |-> BuildDirectory \o Slash \o names[i] \o DotJson,
      name         |-> names[i],
      relativeName |-> splitSecond(ContractsDirectory, WorkingDirectory)
                         \o Slash \o names[i] \o DotSol]]

\* lodash's compareAscending on property `key` of two rows: rows have no
\* property other than name and size, and two undefined values compare equal
compareAscending(a, b, key) ==
  CASE key = "name" -> IF StrLess(a.name, b.name) THEN -1
                       ELSE IF StrLess(b.name, a.name) THEN 1 ELSE 0
    [] key = "size" -> IF a.size < b.size THEN -1
                       ELSE IF b.size < a.size THEN 1 ELSE 0
    [] OTHER        -> 0

\* lodash.orderBy(data, key, order): a stable sort; any order but 'desc' ascends
orderBy(data, key, order) ==
  LET n == Len(data)
      sign == IF order = "desc" THEN -1 ELSE 1
      Before(i, j) ==
        LET c == sign * compareAscending(data[i], data[j], key)
        IN  c < 0 \/ (c = 0 /\ i < j)
      p == CHOOSE q \in [1..n -> 1..n] :
             \A i, j \in 1..n : i < j => Before(q[i], q[j])
  IN  [i \in 1..n |-> data[p[i]]]

\* sortOptions[i]: undefined past the end of the array
optionAt(opts, i) ==
  IF i <= Len(opts) THEN [def |-> TRUE, s |-> opts[i]] ELSE [def |-> FALSE, s |-> ""]

Falsy(x) == ~x.def \/ x.s = ""

\* orderTable: the rows it returns and the messages it hands to done
orderTable(opts, data) ==
  LET type  == optionAt(opts, 1)
      order == optionAt(opts, 2)
      typeOk  == type.def /\ type.s \in {"name", "size"}
      orderOk == order.def /\ order.s \in {"asc", "desc"}
  IN  IF Falsy(type) /\ Falsy(order)
        THEN [data |-> orderBy(data, "name", "asc"),
              said |-> <<Msg("warnDefault", <<>>, Undefined)>>]
      ELSE IF ~typeOk /\ orderOk
        THEN [data |-> orderBy(data, "name", order.s),
              said |-> <<Msg("warnSort", <<>>, Undefined)>>]
      ELSE IF ~orderOk
        THEN [data |-> orderBy(data, type.s, "asc"),
              said |-> <<Msg("warnOrder", <<>>, Undefined)>>]
      ELSE [data |-> orderBy(data, type.s, order.s), said |-> <<>>]

drawTable(data) ==
  [i \in 1..Len(data) |-> <<data[i].name, data[i].formatSize>>]

\* the checkMaxSize block: one done call for each row over the maximum
RECURSIVE tooBigCalls(_, _)
tooBigCalls(rows, maxSize) ==
  IF rows = <<>> THEN <<>>
  ELSE (IF GreaterThanMax(parseFloat(Head(rows)[2]), maxSize)
          THEN <<Msg("tooBig", Head(rows)[1], maxSize)>>
          ELSE <<>>)
       \o tooBigCalls(Tail(rows), maxSize)

\* a barrier that opens with the first fulfilled promise, as Promise.race would
PromiseRaceFulfilled(t) == \E i \in DOMAIN t : t[i] = "fulfilled"

\* await Promise.all(contractPromises) resumes once every promise is fulfilled
PromiseAllFulfilled(t) == \A i \in DOMAIN t : t[i] = "fulfilled"

(********************************** states *********************************)
Init ==
  /\ pc = "start"
  /\ argv \in ArgvInputs
  /\ sortOptions = NoSort
  /\ files = <<>>
  /\ contracts = <<>>
  /\ task = <<>>
  /\ tableData = <<>>
  /\ table = <<>>
  /\ stdout = <<>>
  /\ doneLog = <<>>
  /\ fsOps = {}
  /\ pushed = <<>>
  /\ maxChecked = FALSE

\* module.exports lines 20-35, to the first await: the validity check, then
\* getContracts, which lists the directory or maps the given names at once
Start ==
  /\ pc = "start"
  /\ LET said == IF ~isValidCheckMaxSize(argv.checkMaxSize)
                   THEN <<Msg("invalidCheckMaxSize", <<>>, argv.checkMaxSize)>>
                   ELSE <<>>
     IN  /\ doneLog' = doneLog \o said
         /\ IF mustListDirectory(argv.contracts)
              THEN /\ pc' = "readDir"
                   /\ fsOps' = fsOps \cup {"readdir"}
                   /\ UNCHANGED <<contracts, task, pushed>>
              ELSE LET refs == contractRefs(argv.contracts.names)
                   IN  /\ pc' = "promiseAll"
                       /\ contracts' = refs
                       /\ task' = [i \in 1..Len(refs) |-> "lstat"]
                       /\ pushed' = [i \in 1..Len(refs) |-> 0]
                       /\ fsOps' = fsOps \cup {"lstat"}
  /\ UNCHANGED <<argv, sortOptions, files, tableData, table, stdout, maxChecked>>

\* readdir fails: done is told, then files.filter throws on undefined and
\* module.exports rejects
ReadDirFails ==
  /\ pc = "readDir"
  /\ doneLog' = Append(doneLog, Msg("readDirError", BuildDirectory, Undefined))
  /\ pc' = "rejected"
  /\ UNCHANGED <<argv, sortOptions, files, contracts, task, tableData, table, stdout,
                 fsOps, pushed, maxChecked>>

\* readdir answers: the listing is filtered and mapped, and one task a
\* contract starts, each up to its lstat
ReadDirDone ==
  /\ pc = "readDir"
  /\ \E listing \in Listings :
       LET refs == contractRefs(getAllContractNames(listing, argv.ignoreMocks))
       IN  /\ files' = listing
           /\ contracts' = refs
           /\ task' = [i \in 1..Len(refs) |-> "lstat"]
           /\ pushed' = [i \in 1..Len(refs) |-> 0]
           /\ fsOps' = IF Len(refs) > 0 THEN fsOps \cup {"lstat"} ELSE fsOps
  /\ pc' = "promiseAll"
  /\ UNCHANGED <<argv, sortOptions, tableData, table, stdout, doneLog, maxChecked>>

\* a rejected task rejects Promise.all, and with it module.exports, if it
\* is still waiting there
Rejects(i) ==
  /\ task' = [task EXCEPT ![i] = "rejected"]
  /\ pc' = IF pc = "promiseAll" THEN "rejected" ELSE pc
  /\ UNCHANGED <<tableData, pushed>>

\* task i, lstat fails: checkFile tells done, then stat.isFile() throws
LstatFails(i) ==
  /\ i \in DOMAIN task
  /\ task[i] = "lstat"
  /\ doneLog' = Append(doneLog, Msg("lstatError", contracts[i].file, Undefined))
  /\ Rejects(i)
  /\ UNCHANGED <<argv, sortOptions, files, contracts, table, stdout, fsOps, maxChecked>>

\* task i, lstat answers: checkFile tells done of what is no regular file
\* and returns all the same; then require, the deployedBytecode test, the
\* size and the push
LstatDone(i) ==
  /\ i \in DOMAIN task
  /\ task[i] = "lstat"
  /\ \E isFile \in BOOLEAN, req \in RequireOutcomes :
       LET notFile == IF isFile THEN <<>>
                      ELSE <<Msg("notAFile", contracts[i].file, Undefined)>>
           byteCodeSize == computeByteCodeSizeInKiB(req.len)
       IN  CASE req.r = "throws" ->
                  /\ doneLog' = doneLog \o notFile
                  /\ Rejects(i)
             [] req.r = "noBytecode" ->
                  \* done is told, then undefined.length throws
                  /\ doneLog' = doneLog \o notFile
                                  \o <<Msg("noBytecode", contracts[i].file, Undefined)>>
                  /\ Rejects(i)
             [] req.r = "artifact" ->
                  /\ doneLog' = doneLog \o notFile
                  /\ tableData' = Append(tableData,
                       [name |-> IF argv.disambiguatePaths
                                   THEN contracts[i].relativeName
                                   ELSE contracts[i].name,
                        size |-> byteCodeSize,
                        formatSize |-> formatByteCodeSize(byteCodeSize)])
                  /\ pushed' = [pushed EXCEPT ![i] = @ + 1]
                  /\ task' = [task EXCEPT ![i] = "fulfilled"]
                  /\ pc' = pc
  /\ fsOps' = fsOps \cup {"require"}
  /\ UNCHANGED <<argv, sortOptions, files, contracts, table, stdout, maxChecked>>

\* module.exports lines 57-76, after await Promise.all: sort, draw, print,
\* the checkMaxSize block, done()
Finish ==
  /\ pc = "promiseAll"
  /\ PromiseAllFulfilled(task)
  /\ \E sort \in SortInputs :
     LET \* sortOptions && sortOptions !== []: an array is truthy and never
         \* identical to a fresh one
         sorted == IF sort.given
                     THEN orderTable(sort.opts, tableData)
                     ELSE [data |-> tableData, said |-> <<>>]
         drawn == drawTable(sorted.data)
         maxSize == IF argv.checkMaxSize = True
                      THEN Num(DEFAULT_MAX_CONTRACT_SIZE_IN_KIB)
                      ELSE argv.checkMaxSize
         checking == Truthy(argv.checkMaxSize)
     IN  /\ sortOptions' = sort
         /\ tableData' = sorted.data
         /\ table' = drawn
         /\ stdout' = Append(stdout, drawn)
         /\ maxChecked' = checking
         /\ doneLog' = doneLog \o sorted.said
                         \o (IF checking THEN tooBigCalls(drawn, maxSize) ELSE <<>>)
                         \o <<Success>>
  /\ pc' = "finished"
  /\ UNCHANGED <<argv, files, contracts, task, fsOps, pushed>>

Next ==
  \/ Start
  \/ ReadDirFails
  \/ ReadDirDone
  \/ \E i \in DOMAIN task : LstatFails(i)
  \/ \E i \in DOMAIN task : LstatDone(i)
  \/ Finish

Spec == Init /\ [][Next]_vars

(******************************** properties *******************************)
Range(s) == {s[i] : i \in DOMAIN s}
Said(kind) == \E i \in DOMAIN doneLog : doneLog[i].kind = kind
FatalKinds == {"invalidCheckMaxSize", "readDirError", "lstatError", "notAFile",
               "noBytecode", "noContracts", "tooBig"}
WarningKinds == {"warnDefault", "warnSort", "warnOrder"}
HasSuffix(s, suffix) ==
  \E k \in 0..Len(s) : s = SubSeq(s, 1, k) \o suffix
NamesOf(refs) == [i \in DOMAIN refs |-> refs[i].name]
\* the run listed the build directory and got an answer
Scanned == /\ mustListDirectory(argv.contracts)
           /\ pc \in {"promiseAll", "finished", "rejected"}
           /\ ~Said("readDirError")
\* the run took the names from --contracts
Explicit == /\ ~mustListDirectory(argv.contracts)
            /\ pc # "start"
\* the limit of an active check: 24 for true, else the number given
LimitOf(checkMaxSize) ==
  IF checkMaxSize = True THEN DEFAULT_MAX_CONTRACT_SIZE_IN_KIB ELSE checkMaxSize.n
\* the size a row displays, in hundredths of a KiB
Displayed(row) == row[2].whole * 100 + row[2].frac

\* C1: with a check active at limit L (24 for true, else any number L >= 0
\* given), a finished run has told done "Contract <name> is bigger than L KiB"
\* for a row if and only if the size the row displays is greater than L.
C1_TooBigIffDisplayedAboveLimit ==
  LET c == argv.checkMaxSize
      active == c = True \/ (c.t = "number" /\ c.n >= 0)
  IN  (pc = "finished" /\ active) =>
        \A r \in DOMAIN table :
          (\E i \in DOMAIN doneLog : doneLog[i] = Msg("tooBig", table[r][1], Num(LimitOf(c))))
            <=> Displayed(table[r]) > 100 * LimitOf(c)

\* C2: when the check ran against a numeric limit and some measured contract
\* has more bytes than limit * 1024, a finished run has reported an error
\* through done.
C2_OversizeContractFails ==
  LET c == argv.checkMaxSize
  IN  (/\ pc = "finished"
       /\ maxChecked
       /\ c = True \/ c.t = "number"
       /\ \E r \in DOMAIN tableData : tableData[r].size > LimitOf(c) * KiBUnits)
      => \E i \in DOMAIN doneLog : doneLog[i].kind \in FatalKinds

\* C3: a checkMaxSize that is neither absent, true nor a number is reported to
\* done first of all, and the run issues no file-system call.
C3_InvalidCheckMaxSizeStopsTheRun ==
  LET c == argv.checkMaxSize
      invalid == c # Undefined /\ c # True /\ c.t # "number"
  IN  (invalid /\ pc # "start") =>
        /\ doneLog # <<>>
        /\ doneLog[1].kind = "invalidCheckMaxSize"
        /\ ~Said("success")
        /\ fsOps = {}

\* C4: a run that reports a fatal condition through done never calls done
\* without an error, before or after.
C4_NoSuccessBesideAnError ==
  ~(\E i, j \in DOMAIN doneLog :
      doneLog[i].kind \in FatalKinds /\ doneLog[j].kind = "success")

\* C5: with ignoreMocks set and no contract named, the resolved contracts are
\* the names n with n.json in the listing and n not ending in Mock, each once;
\* with contracts named, they are the names given, in the order given.
C5_ResolvedContracts ==
  /\ (Scanned /\ argv.ignoreMocks) =>
       /\ Range(NamesOf(contracts)) =
            {n \in UNION {{SubSeq(f, 1, k) : k \in 0..Len(f)} : f \in Range(files)} :
               /\ (n \o <<".", "j", "s", "o", "n">>) \in Range(files)
               /\ ~HasSuffix(n, <<"M", "o", "c", "k">>)}
       /\ Cardinality(Range(NamesOf(contracts))) = Len(contracts)
  /\ Explicit => NamesOf(contracts) = argv.contracts.names

\* C5, its case: a listing with a mock, an artifact and another file was
\* filtered under ignoreMocks
C5_Witness ==
  /\ Scanned
  /\ argv.ignoreMocks
  /\ (NameTMock \o DotJson) \in Range(files)
  /\ (NameA \o DotJson) \in Range(files)
  /\ NamesOf(contracts) = <<NameA>>

\* C6: a finished run that listed the directory and resolved no contract has
\* told done that there are no compiled contracts, printed no table and not
\* called done without an error.
C6_NoContractsIsFatal ==
  (Scanned /\ contracts = <<>> /\ pc = "finished") =>
     /\ Said("noContracts")
     /\ stdout = <<>>
     /\ ~Said("success")

RowsOrdered(data, key, order) ==
  \A i, j \in DOMAIN data :
    i < j =>
      LET a == IF order = "desc" THEN data[j] ELSE data[i]
          b == IF order = "desc" THEN data[i] ELSE data[j]
      IN  IF key = "size" THEN a.size <= b.size ELSE ~StrLess(b.name, a.name)

\* C7: the printed rows are in the order asked for (name or size, asc or
\* desc), and in ascending order of name when no sort option is given.
C7_RowsInRequestedOrder ==
  LET o == sortOptions.opts
      valid == Len(o) = 2 /\ o[1] \in {"name", "size"} /\ o[2] \in {"asc", "desc"}
  IN  /\ (pc = "finished" /\ sortOptions.given /\ valid) =>
           /\ table = drawTable(tableData)
           /\ RowsOrdered(tableData, o[1], o[2])
      /\ (pc = "finished" /\ ~sortOptions.given) =>
           /\ table = drawTable(tableData)
           /\ RowsOrdered(tableData, "name", "asc")

\* C8: a sort option with an invalid or missing field or direction costs a
\* warning that does not go through done, the rows are ordered with name and
\* asc in place of the invalid part, and done is called once, without error.
C8_InvalidSortOnlyWarns ==
  LET o == sortOptions.opts
      typeOk  == Len(o) >= 1 /\ o[1] \in {"name", "size"}
      orderOk == Len(o) >= 2 /\ o[2] \in {"asc", "desc"}
  IN  (pc = "finished" /\ sortOptions.given /\ ~(typeOk /\ orderOk)) =>
        /\ \A i \in DOMAIN doneLog : doneLog[i].kind \notin WarningKinds
        /\ RowsOrdered(tableData, IF typeOk THEN o[1] ELSE "name",
                                  IF orderOk THEN o[2] ELSE "asc")

RECURSIVE SumOfSizes(_)
SumOfSizes(data) ==
  IF data = <<>> THEN 0 ELSE Head(data).size + SumOfSizes(Tail(data))

\* C9: the printed table has one row a resolved contract and then one total
\* row, which shows the sum of the sizes of the other rows.
C9_TotalRow ==
  pc = "finished" =>
    /\ Len(table) = Len(contracts) + 1
    /\ table[Len(table)] = <<<<"T", "o", "t", "a", "l">>,
                              formatByteCodeSize(SumOfSizes(tableData))>>

\* C10: the table is drawn and printed and the checkMaxSize block run only
\* when every task is fulfilled and has pushed exactly one row, and never in a
\* run in which a task was rejected.
C10_Barrier ==
  /\ (stdout # <<>> \/ table # <<>> \/ maxChecked \/ pc = "finished") =>
       /\ DOMAIN task = DOMAIN contracts
       /\ \A i \in DOMAIN task : task[i] = "fulfilled" /\ pushed[i] = 1
       /\ Len(tableData) = Len(contracts)
       /\ \A t \in Range(stdout) : Len(t) = Len(contracts)
  /\ (\E i \in DOMAIN task : task[i] = "rejected") =>
       /\ stdout = <<>>
       /\ table = <<>>
       /\ ~maxChecked
       /\ pc # "finished"

\* C10, its case: two tasks ended in either order, the table was printed and
\* the checkMaxSize block ran
C10_Witness ==
  /\ Len(contracts) = 2
  /\ Len(stdout) = 1
  /\ Len(stdout[1]) = 2
  /\ maxChecked
  /\ tableData[1].name = contracts[2].name

====
